---- MODULE Spec2Model ----
(***************************************************************************)
(* The server of vibe-list (popup / postMessage variant).                   *)
(* The OAuth relay: GET /oauth/start, GET /callback/spotify,               *)
(* GET /callback/google, the token exchange helpers and finish, with the   *)
(* in-memory Transaction Store txns.                                       *)
(* The AI proxy: POST /generate-album-cover-prompt,                        *)
(* POST /edit-selfie-into-album-cover, POST /generate-playlist-vibe.       *)
(* Strings that the code only compares or tests for truthiness are TLA+    *)
(* strings; the redirect value, which the code matches against a regular   *)
(* expression and parses with new URL(), and the text of the AI provider,  *)
(* which the code trims, matches and parses, are sequences of characters.  *)
(* Spec follows the relay, SpecAI the AI proxy, SpecExchange one call of   *)
(* an exchange helper, SpecRedirect the older redirect variant of the      *)
(* relay.                                                                  *)
(***************************************************************************)
EXTENDS Naturals, Sequences, FiniteSets, Bags, TLC

(***************************************************************************)
(* Bounds of the model.                                                    *)
(***************************************************************************)
\* callback requests suspended in their token exchange at the same time
MaxInflight == 2

\* AI proxy requests suspended in their provider call at the same time
MaxAIInflight == 2

(***************************************************************************)
(* JavaScript values.                                                      *)
(***************************************************************************)
\* the value of an absent query parameter or an absent object key
Undefined == "undefined"

\* !x for the string-or-undefined values of the model
Falsy(x) == x \in {Undefined, ""}

Truthy(x) == ~Falsy(x)

\* a || b
Or(a, b) == IF Truthy(a) THEN a ELSE b

(***************************************************************************)
(* Characters and sequences of characters.                                 *)
(***************************************************************************)
LowerOf ==
  ("A" :> "a") @@ ("B" :> "b") @@ ("C" :> "c") @@ ("D" :> "d") @@ ("E" :> "e")
  @@ ("F" :> "f") @@ ("G" :> "g") @@ ("H" :> "h") @@ ("I" :> "i") @@ ("J" :> "j")
  @@ ("K" :> "k") @@ ("L" :> "l") @@ ("M" :> "m") @@ ("N" :> "n") @@ ("O" :> "o")
  @@ ("P" :> "p") @@ ("Q" :> "q") @@ ("R" :> "r") @@ ("S" :> "s") @@ ("T" :> "t")
  @@ ("U" :> "u") @@ ("V" :> "v") @@ ("W" :> "w") @@ ("X" :> "x") @@ ("Y" :> "y")
  @@ ("Z" :> "z")

Lower(c) == IF c \in DOMAIN LowerOf THEN LowerOf[c] ELSE c

LowerSeq(s) == [i \in 1..Len(s) |-> Lower(s[i])]

DigitOf ==
  ("0" :> 0) @@ ("1" :> 1) @@ ("2" :> 2) @@ ("3" :> 3) @@ ("4" :> 4)
  @@ ("5" :> 5) @@ ("6" :> 6) @@ ("7" :> 7) @@ ("8" :> 8) @@ ("9" :> 9)

DigitChars == <<"0", "1", "2", "3", "4", "5", "6", "7", "8", "9">>

\* the characters a regular expression's . does not match
LineTerminators == {"\n", "\r"}

\* s from position i to its end
Drop(s, i) == SubSeq(s, i, Len(s))

\* s starts with the characters p
StartsWith(s, p) == Len(s) >= Len(p) /\ SubSeq(s, 1, Len(p)) = p

\* the first position >= i of s holding a character of set cs, Len(s)+1 if none
RECURSIVE FindFrom(_, _, _)
FindFrom(s, i, cs) ==
  IF i > Len(s) THEN Len(s) + 1
  ELSE IF s[i] \in cs THEN i
  ELSE FindFrom(s, i + 1, cs)

\* the first position >= i of s holding a character outside set cs
RECURSIVE SkipFrom(_, _, _)
SkipFrom(s, i, cs) ==
  IF i > Len(s) THEN Len(s) + 1
  ELSE IF s[i] \notin cs THEN i
  ELSE SkipFrom(s, i + 1, cs)

\* the number written by a sequence of digits
RECURSIVE DigitsValue(_)
DigitsValue(s) ==
  IF s = <<>> THEN 0
  ELSE 10 * DigitsValue(SubSeq(s, 1, Len(s) - 1)) + DigitOf[s[Len(s)]]

\* the shortest decimal writing of n
RECURSIVE NumberDigits(_)
NumberDigits(n) ==
  IF n < 10 THEN <<DigitChars[n + 1]>>
  ELSE NumberDigits(n \div 10) \o <<DigitChars[(n % 10) + 1]>>

(***************************************************************************)
(* The redirect test of /oauth/start: /^https?:\/\/.+/i                    *)
(***************************************************************************)
MatchesHttpUrl(s) ==
  LET l == LowerSeq(s)
      rest == IF StartsWith(l, <<"h", "t", "t", "p", "s">>) THEN Drop(l, 6)
              ELSE IF StartsWith(l, <<"h", "t", "t", "p">>) THEN Drop(l, 5)
              ELSE <<>>
  IN /\ StartsWith(rest, <<":", "/", "/">>)
     /\ Len(rest) >= 4
     /\ rest[4] \notin LineTerminators

(***************************************************************************)
(* new URL(s).origin for an s that passed MatchesHttpUrl (scheme http or   *)
(* https): the scheme and the host in lower case, the port unless it is    *)
(* the scheme's default.  UrlParses(s) is FALSE where new URL(s) throws.   *)
(***************************************************************************)
\* characters that end the authority of a URL
AuthorityEnd == {"/", "\\", "?", "#"}

\* characters a host may not hold
ForbiddenHostChars == {" ", "<", ">", "[", "]", "^", "|", "%", "@"}

UrlScheme(s) == LowerSeq(SubSeq(s, 1, FindFrom(s, 1, {":"}) - 1))

UrlAuthority(s) ==
  LET from == SkipFrom(s, FindFrom(s, 1, {":"}) + 1, {"/", "\\"})
      to == FindFrom(s, from, AuthorityEnd)
  IN SubSeq(s, from, to - 1)

UrlHost(s) ==
  LET a == UrlAuthority(s)
  IN LowerSeq(SubSeq(a, 1, FindFrom(a, 1, {":"}) - 1))

UrlPortDigits(s) ==
  LET a == UrlAuthority(s)
  IN Drop(a, FindFrom(a, 1, {":"}) + 1)

DefaultPort(scheme) == IF scheme = <<"h", "t", "t", "p">> THEN 80 ELSE 443

MaxPort == 65535

UrlParses(s) ==
  /\ UrlHost(s) # <<>>
  /\ \A i \in 1..Len(UrlHost(s)) : UrlHost(s)[i] \notin ForbiddenHostChars
  /\ \A i \in 1..Len(UrlPortDigits(s)) : UrlPortDigits(s)[i] \in DOMAIN DigitOf
  /\ DigitsValue(UrlPortDigits(s)) <= MaxPort

Origin(s) ==
  LET port == UrlPortDigits(s)
      shown == IF port = <<>> \/ DigitsValue(port) = DefaultPort(UrlScheme(s))
               THEN <<>>
               ELSE <<":">> \o NumberDigits(DigitsValue(port))
  IN UrlScheme(s) \o <<":", "/", "/">> \o UrlHost(s) \o shown

(***************************************************************************)
(* Configuration (cfg) and the inputs of the requests.                     *)
(***************************************************************************)
cfg ==
  [spotify |->
     [auth |-> "https://accounts.spotify.com/authorize",
      token |-> "https://accounts.spotify.com/api/token",
      clientId |-> "SPOTIFY_CLIENT_ID",
      redirectUri |-> "SPOTIFY_REDIRECT_URI",
      scope |-> "playlist-modify-public playlist-modify-private ugc-image-upload"],
   google |->
     [auth |-> "https://accounts.google.com/o/oauth2/v2/auth",
      token |-> "https://oauth2.googleapis.com/token",
      clientId |-> "GOOGLE_CLIENT_ID",
      redirectUri |-> "GOOGLE_REDIRECT_URI",
      scope |-> "https://www.googleapis.com/auth/youtube"]]

\* the providers /oauth/start accepts
KnownProviders == {"spotify", "google"}

\* provider values a caller may send to /oauth/start
StartProviders == KnownProviders \cup {"twitter"}

\* "HTTP://A:80/x", whose origin is http://a
RedirectA == <<"H", "T", "T", "P", ":", "/", "/", "A", ":", "8", "0", "/", "x">>

\* "https://b:8443", whose origin is https://b:8443
RedirectB == <<"h", "t", "t", "p", "s", ":", "/", "/", "b", ":", "8", "4", "4", "3">>

\* "http://a b", which matches the redirect test and which new URL() rejects
RedirectUnparsable == <<"h", "t", "t", "p", ":", "/", "/", "a", " ", "b">>

\* "javascript:alert(1)"
RedirectScript ==
  <<"j", "a", "v", "a", "s", "c", "r", "i", "p", "t", ":",
    "a", "l", "e", "r", "t", "(", "1", ")">>

\* "http://", a scheme with nothing after it
RedirectBare == <<"h", "t", "t", "p", ":", "/", "/">>

\* an absent (or empty) redirect parameter: both fail !redirect
NoRedirect == <<>>

StartRedirects ==
  {RedirectA, RedirectB, RedirectUnparsable, RedirectScript, RedirectBare, NoRedirect}

\* the values crypto.randomBytes(16).toString("hex") draws; each is drawn at
\* most once (a 128-bit value does not repeat)
Tokens == {"s1", "s2"}

\* a state value no /oauth/start ever issued
ForgedState == "forged"

CallbackStates == Tokens \cup {ForgedState, Undefined}

CallbackCodes == {Undefined, "c"}

CallbackErrors == {Undefined, "access_denied"}

\* the JSON objects a token endpoint answers with
Bodies ==
  [access_token : {Undefined, "tok"},
   error : {Undefined, "invalid_grant"},
   error_description : {Undefined, "Invalid authorization code"}]

EmptyBody ==
  [access_token |-> Undefined, error |-> Undefined, error_description |-> Undefined]

\* how a token exchange can end: fetch rejects ("network"), the body is not
\* JSON ("notjson"), the body is the JSON value null ("null"), or the body
\* is a JSON object ("object"); ok is r.ok
ExchangeOutcomes ==
  {[kind |-> "network", ok |-> FALSE, body |-> EmptyBody]}
  \cup [kind : {"notjson", "null"}, ok : BOOLEAN, body : {EmptyBody}]
  \cup [kind : {"object"}, ok : BOOLEAN, body : Bodies]

NoExchange == [kind |-> "none", ok |-> FALSE, body |-> EmptyBody]

(***************************************************************************)
(* The text of the AI provider.  A text is a sequence of characters in     *)
(* which a quoted JSON string is written as one element; the alphabet has  *)
(* no digits, so no JSON numbers.                                          *)
(***************************************************************************)
\* the characters String.prototype.trim removes and \s matches
Whitespace == {" ", "\n", "\t", "\r"}

\* the last position <= i of s holding a character outside set cs, 0 if none
RECURSIVE SkipBack(_, _, _)
SkipBack(s, i, cs) ==
  IF i < 1 THEN 0
  ELSE IF s[i] \notin cs THEN i
  ELSE SkipBack(s, i - 1, cs)

\* s.trim()
Trim(s) == SubSeq(s, SkipFrom(s, 1, Whitespace), SkipBack(s, Len(s), Whitespace))

\* s ends with the characters p
EndsWith(s, p) == Len(s) >= Len(p) /\ SubSeq(s, Len(s) - Len(p) + 1, Len(s)) = p

\* the character U+0060, which a TLA+ string cannot hold
Backquote == "backquote"

\* the three backquotes that open and close a fenced block
Fence == <<Backquote, Backquote, Backquote>>

\* the match of /^FENCE(?:json)?\s*([\s\S]*?)\s*FENCE$/i, FENCE being three
\* backquotes: the text opens and closes with a fence of its own
FenceMatches(t) == Len(t) >= 2 * Len(Fence) /\ StartsWith(t, Fence) /\ EndsWith(t, Fence)

\* group 1 of the match: what lies between the fences, after the json tag if
\* there is one, without the white space \s* takes on either side
FenceGroup(t) ==
  LET between == SubSeq(t, Len(Fence) + 1, Len(t) - Len(Fence))
      tagged == StartsWith(LowerSeq(between), <<"j", "s", "o", "n">>)
  IN Trim(IF tagged THEN Drop(between, 5) ELSE between)

\* a strip that leaves every text as it is
StripFence_Never(t) == t

\* const m = jsonText.match(...); if (m) jsonText = m[1].trim();
StripFence(t) == IF FenceMatches(t) THEN Trim(FenceGroup(t)) ELSE t

(***************************************************************************)
(* JSON.parse.  A JSON value is [type, text, keys, items]: a string has    *)
(* its quoted text, an array its items, an object its keys and, in the     *)
(* same order, the values of its keys.                                     *)
(***************************************************************************)
\* the quoted strings of the texts
StringLiterals ==
  {"\"vibe\"", "\"genre\"", "\"songs\"", "\"title\"", "\"artist\"",
   "\"a\"", "\"b\"", "\"error\""}

JsonWhitespace == {" ", "\n", "\t", "\r"}

JsonLiterals ==
  {<<"n", "u", "l", "l">>, <<"t", "r", "u", "e">>, <<"f", "a", "l", "s", "e">>}

NoJson == [type |-> "none", text |-> "", keys |-> <<>>, items |-> <<>>]

JString(l) == [type |-> "string", text |-> l, keys |-> <<>>, items |-> <<>>]

JLiteral(cs) == [type |-> "literal", text |-> "", keys |-> <<>>, items |-> <<cs>>]

JArray(items) == [type |-> "array", text |-> "", keys |-> <<>>, items |-> items]

JObject(keys, items) == [type |-> "object", text |-> "", keys |-> keys, items |-> items]

\* a key that comes again replaces the value it had and keeps its place
SetMember(keys, items, k, v) ==
  IF \E n \in 1..Len(keys) : keys[n] = k
  THEN <<keys, [n \in 1..Len(items) |-> IF keys[n] = k THEN v ELSE items[n]]>>
  ELSE <<Append(keys, k), Append(items, v)>>

ParseFailed == [ok |-> FALSE, value |-> NoJson, next |-> 0]

Parsed(v, next) == [ok |-> TRUE, value |-> v, next |-> next]

RECURSIVE ParseValue(_, _)
RECURSIVE ParseElements(_, _, _)
RECURSIVE ParseMembers(_, _, _, _)

\* the value that starts at position i of s, after white space
ParseValue(s, i) ==
  LET j == SkipFrom(s, i, JsonWhitespace)
  IN IF j > Len(s) THEN ParseFailed
     ELSE IF s[j] \in StringLiterals THEN Parsed(JString(s[j]), j + 1)
     ELSE IF \E l \in JsonLiterals : StartsWith(Drop(s, j), l)
     THEN LET l == CHOOSE l \in JsonLiterals : StartsWith(Drop(s, j), l)
          IN Parsed(JLiteral(l), j + Len(l))
     ELSE IF s[j] = "[" THEN ParseElements(s, j + 1, <<>>)
     ELSE IF s[j] = "{" THEN ParseMembers(s, j + 1, <<>>, <<>>)
     ELSE ParseFailed

\* the rest of an array, from position i on: after its [ (items is empty) or
\* after a comma
ParseElements(s, i, items) ==
  LET j == SkipFrom(s, i, JsonWhitespace)
  IN IF j > Len(s) THEN ParseFailed
     ELSE IF items = <<>> /\ s[j] = "]" THEN Parsed(JArray(<<>>), j + 1)
     ELSE LET r == ParseValue(s, j)
              k == SkipFrom(s, r.next, JsonWhitespace)
          IN IF ~r.ok \/ k > Len(s) THEN ParseFailed
             ELSE IF s[k] = "," THEN ParseElements(s, k + 1, Append(items, r.value))
             ELSE IF s[k] = "]" THEN Parsed(JArray(Append(items, r.value)), k + 1)
             ELSE ParseFailed

\* the rest of an object, from position i on: after its { (keys is empty) or
\* after a comma
ParseMembers(s, i, keys, items) ==
  LET j == SkipFrom(s, i, JsonWhitespace)
  IN IF j > Len(s) THEN ParseFailed
     ELSE IF keys = <<>> /\ s[j] = "}" THEN Parsed(JObject(<<>>, <<>>), j + 1)
     ELSE IF s[j] \notin StringLiterals THEN ParseFailed
     ELSE LET c == SkipFrom(s, j + 1, JsonWhitespace)
          IN IF c > Len(s) \/ s[c] # ":" THEN ParseFailed
             ELSE LET r == ParseValue(s, c + 1)
                      k == SkipFrom(s, r.next, JsonWhitespace)
                      m == SetMember(keys, items, s[j], r.value)
                  IN IF ~r.ok \/ k > Len(s) THEN ParseFailed
                     ELSE IF s[k] = "," THEN ParseMembers(s, k + 1, m[1], m[2])
                     ELSE IF s[k] = "}" THEN Parsed(JObject(m[1], m[2]), k + 1)
                     ELSE ParseFailed

\* JSON.parse(s), NoJson where it throws
JsonParse(s) ==
  LET r == ParseValue(s, 1)
  IN IF r.ok /\ SkipFrom(s, r.next, JsonWhitespace) > Len(s) THEN r.value ELSE NoJson

(***************************************************************************)
(* The inputs of the AI proxy: the credential, the request bodies and the  *)
(* answers of the AI provider.                                             *)
(***************************************************************************)
\* process.env.GEMINI_API_KEY || process.env.GOOGLE_API_KEY
GeminiApiKeys == {Undefined, "key"}

GeneratePrompt == "/generate-album-cover-prompt"

EditSelfie == "/edit-selfie-into-album-cover"

GeneratePlaylist == "/generate-playlist-vibe"

AIHandlers == {GeneratePrompt, EditSelfie, GeneratePlaylist}

\* a field of styles: absent, an array or a string
NoList == [kind |-> "absent", items |-> <<>>]

NoStyles == [given |-> FALSE, decade |-> NoList, genre |-> NoList, style |-> Undefined]

\* styles as the client sends it: {decade: ["80s"], genre: [], style: "noir"}
StylesFull ==
  [given |-> TRUE, decade |-> [kind |-> "array", items |-> <<"80s">>],
   genre |-> [kind |-> "array", items |-> <<>>], style |-> "noir"]

\* styles: {}
StylesBare == [given |-> TRUE, decade |-> NoList, genre |-> NoList, style |-> Undefined]

\* styles: {decade: "80s"}, a string where the handler joins an array
StylesText ==
  [given |-> TRUE, decade |-> [kind |-> "string", items |-> <<"8", "0", "s">>],
   genre |-> NoList, style |-> Undefined]

StylesSamples == {NoStyles, StylesFull, StylesBare, StylesText}

\* playlistLength: absent is <<>>, the number n is <<n>>
NoLength == <<>>

PlaylistLengths == {NoLength, <<0>>, <<2>>}

\* req.body is undefined (no JSON body was parsed)
NoBody ==
  [present |-> FALSE, imageData |-> Undefined, imageMimeType |-> Undefined,
   mood |-> Undefined, styles |-> NoStyles, prompt |-> Undefined,
   albumPrompt |-> Undefined, playlistLength |-> NoLength]

\* the body {}
EmptyObject == [NoBody EXCEPT !.present = TRUE]

\* the bodies sent to a handler; they vary in the fields the handler reads
BodiesOf(handler) ==
  {NoBody} \cup
  IF handler = GeneratePrompt
  THEN [present : {TRUE}, imageData : {Undefined, "b64"},
        imageMimeType : {Undefined, "image/png"}, mood : {Undefined, "", "calm"},
        styles : StylesSamples, prompt : {Undefined}, albumPrompt : {Undefined},
        playlistLength : {NoLength}]
  ELSE IF handler = EditSelfie
  THEN [present : {TRUE}, imageData : {Undefined, "b64"},
        imageMimeType : {Undefined, "image/png"}, mood : {Undefined},
        styles : {NoStyles}, prompt : {Undefined, "", "neon"},
        albumPrompt : {Undefined}, playlistLength : {NoLength}]
  ELSE [present : {TRUE}, imageData : {Undefined}, imageMimeType : {Undefined},
        mood : {Undefined, "", "calm"}, styles : {NoStyles}, prompt : {Undefined},
        albumPrompt : {Undefined, "neon"}, playlistLength : PlaylistLengths]

\* {"songs":[{"title":"a"}, {"title":"b"}]}
TextTwoSongs ==
  <<"{", "\"songs\"", ":", "[", "{", "\"title\"", ":", "\"a\"", "}", ",", " ",
    "{", "\"title\"", ":", "\"b\"", "}", "]", "}">>

\* {"vibe":"a","songs":[{"title":"a"}]}
TextOneSong ==
  <<"{", "\"vibe\"", ":", "\"a\"", ",", "\"songs\"", ":", "[",
    "{", "\"title\"", ":", "\"a\"", "}", "]", "}">>

\* {"vibe":"a","genre":null}
TextNoSongs ==
  <<"{", "\"vibe\"", ":", "\"a\"", ",", "\"genre\"", ":", "n", "u", "l", "l", "}">>

\* {"songs":[  (cut off)
TextTruncated == <<"{", "\"songs\"", ":", "[">>

\* a JSON object followed by prose
TextTrailing == TextTwoSongs \o <<" ", "o", "k">>

\* a block fenced with the json tag
TextFencedJson == Fence \o <<"j", "s", "o", "n", "\n">> \o TextTwoSongs \o <<"\n">> \o Fence

\* a block fenced with the tag in upper case
TextFencedUpper == Fence \o <<"J", "S", "O", "N", " ">> \o TextOneSong \o Fence

\* a block fenced without a tag, with white space around the whole
TextFencedPlain == <<" ", "\n">> \o Fence \o <<"\n">> \o TextTwoSongs \o <<"\n">> \o Fence \o <<"\n">>

\* a fenced block that holds no JSON
TextFencedBad == Fence \o <<"j", "s", "o", "n", "\n">> \o TextTruncated \o <<"\n">> \o Fence

\* a fenced block followed by prose
TextFenceThenMore == TextFencedJson \o <<"\n", "o", "k">>

\* white space only
TextBlank == <<" ", "\n">>

\* prose
TextProse == <<" ", "o", "k", "\n">>

UpstreamTexts ==
  {TextTwoSongs, TextOneSong, TextNoSongs, TextTruncated, TextTrailing,
   TextFencedJson, TextFencedUpper, TextFencedPlain, TextFencedBad,
   TextFenceThenMore, TextBlank, TextProse}

NoUpstream == [kind |-> "none", message |-> "", text |-> <<>>, images |-> <<>>]

\* the call rejects with an Error
UpstreamThrows == [NoUpstream EXCEPT !.kind = "throws", !.message = "quota exceeded"]

\* how ai.models.generateContent ends: it throws, or resolves without text
\* ("notext": resp.text is undefined) or with a text
ContentOutcomes ==
  {UpstreamThrows, [NoUpstream EXCEPT !.kind = "notext"]}
  \cup {[NoUpstream EXCEPT !.kind = "text", !.text = t] : t \in UpstreamTexts}

\* how ai.models.generateImages ends: it throws, resolves with nothing
\* ("nothing": no generatedImages), or with the imageBytes of its images
ImageOutcomes ==
  {UpstreamThrows, [NoUpstream EXCEPT !.kind = "nothing"]}
  \cup {[NoUpstream EXCEPT !.kind = "images", !.images = i] :
          i \in {<<>>, <<Undefined>>, <<"">>, <<"png64">>}}

OutcomesOf(handler) == IF handler = EditSelfie THEN ImageOutcomes ELSE ContentOutcomes

(***************************************************************************)
(* State.                                                                  *)
(***************************************************************************)
VARIABLES
  txns,        \* the Transaction Store: state -> [redirect]
  inflight,    \* bag of the callback requests awaiting their token exchange
  alive,       \* the server process runs
  out,         \* the response the last step sent, NoOut if it sent none
  issued,      \* history: state -> the /oauth/start request that issued it
  consumed,    \* history: states whose Transaction finish has found
  relays,      \* history: state -> relay pages produced for it
  ai,          \* the AI client exists (ai is not null)
  aiInflight,  \* bag of the AI proxy requests awaiting their provider call
  aiOut,       \* the response the last AI proxy step sent, NoAIOut if none
  answer,      \* a token endpoint's answer handed to an exchange helper
  returned     \* what the exchange helper made of answer

vars == <<txns, inflight, alive, out, issued, consumed, relays,
          ai, aiInflight, aiOut, answer, returned>>

\* the state of the OAuth relay
relayVars == <<txns, inflight, alive, out, issued, consumed, relays>>

\* the state of the AI proxy
proxyVars == <<ai, aiInflight, aiOut>>

\* one call of an exchange helper taken by itself
exchangeVars == <<answer, returned>>

NoMsg == [provider |-> Undefined]

NoOut ==
  [req |-> "none", provider |-> Undefined, redirect |-> NoRedirect,
   state |-> Undefined, code |-> Undefined, error |-> Undefined,
   status |-> 0, page |-> "none", location |-> <<>>,
   msg |-> NoMsg, targetOrigin |-> <<>>,
   exchange |-> NoExchange, pendingBefore |-> FALSE, consumedBefore |-> FALSE]

\* an AI proxy response: its status and the fields of its JSON body; called
\* tells whether the handler called the AI provider, upstream how that ended
NoAIOut ==
  [req |-> "none", body |-> NoBody, status |-> 0, error |-> <<>>,
   prompt |-> <<>>, imageData |-> Undefined, mimeType |-> Undefined,
   data |-> NoJson, called |-> FALSE, upstream |-> NoUpstream]

EmptyStore == [s \in {} |-> [redirect |-> NoRedirect]]

\* const ai = geminiApiKey ? new GoogleGenAI(...) : null
AIClient(geminiApiKey) == Truthy(geminiApiKey)

\* the server as it starts in a deployment whose AI key is one of keys
Started(keys) ==
  /\ txns = EmptyStore
  /\ inflight = EmptyBag
  /\ alive = TRUE
  /\ out = NoOut
  /\ issued = [s \in {} |-> [provider |-> Undefined, redirect |-> NoRedirect]]
  /\ consumed = {}
  /\ relays = [s \in Tokens \cup {ForgedState} |-> 0]
  /\ ai \in {AIClient(k) : k \in keys}
  /\ aiInflight = EmptyBag
  /\ aiOut = NoAIOut

\* no exchange helper is followed by itself
NoAnswer == [provider |-> Undefined, o |-> NoExchange]

NotCalled == [called |-> FALSE, how |-> "none", value |-> EmptyBody]

NoCall == answer = NoAnswer /\ returned = NotCalled

\* the relay is followed in the deployment that has an AI key: its handlers
\* never read ai
Init == Started({"key"}) /\ NoCall

\* the AI proxy is followed with and without an AI key
InitAI == Started(GeminiApiKeys) /\ NoCall

\* the event loop takes the next event: the process runs and the response of
\* the previous handler has been written
Listening == alive /\ out = NoOut

\* res.send / res.redirect completes: the response has left the server
ResponseSent ==
  /\ out # NoOut
  /\ out' = NoOut
  /\ UNCHANGED <<txns, inflight, alive, issued, consumed, relays>>
  /\ UNCHANGED proxyVars
  /\ UNCHANGED exchangeVars

(***************************************************************************)
(* The Transaction Store (a Map).                                          *)
(***************************************************************************)
\* a set that starts the Map afresh
TxnSet_Fresh(store, state, txn) == [s \in {state} |-> txn]

\* a set that files the whole handler input under the state
TxnSet_Stamped(store, state, txn) ==
  [s \in DOMAIN store \cup {state} |->
     IF s = state THEN [redirect |-> txn.redirect, state |-> state] ELSE store[s]]

\* txns.set(state, txn)
TxnSet(store, state, txn) ==
  [s \in DOMAIN store \cup {state} |-> IF s = state THEN txn ELSE store[s]]

\* what txns.get answers for a key the Map does not hold
NoTxn == [missing |-> TRUE]

\* a lookup that falls back to a default entry for a key the Map does not hold
TxnGet_Default(store, state) ==
  IF state \in DOMAIN store THEN store[state] ELSE [redirect |-> RedirectA]

\* txns.get(state)
TxnGet(store, state) == IF state \in DOMAIN store THEN store[state] ELSE NoTxn

\* a delete that leaves the entry in the Map
TxnDelete_Keep(store, state) == store

\* a delete that removes the entry only while no other entry is pending
TxnDelete_WhenAlone(store, state) ==
  IF DOMAIN store = {state} THEN EmptyStore ELSE store

\* txns.delete(state)
TxnDelete(store, state) == [s \in DOMAIN store \ {state} |-> store[s]]

(***************************************************************************)
(* GET /oauth/start                                                        *)
(***************************************************************************)
ProviderAccepted(provider) == provider \in KnownProviders

\* a redirect test that only asks for a value
RedirectAccepted_AnyValue(redirect) == redirect # NoRedirect

RedirectAccepted(redirect) == redirect # NoRedirect /\ MatchesHttpUrl(redirect)

\* an authorization URL that does not ask spotify for its consent dialog
AuthUrl_NoDialog(provider, state) ==
  IF provider = "spotify"
  THEN <<cfg.spotify.auth,
         <<"response_type", "code">>,
         <<"client_id", cfg.spotify.clientId>>,
         <<"redirect_uri", cfg.spotify.redirectUri>>,
         <<"scope", cfg.spotify.scope>>,
         <<"state", state>> >>
  ELSE <<cfg.google.auth,
         <<"response_type", "code">>,
         <<"client_id", cfg.google.clientId>>,
         <<"redirect_uri", cfg.google.redirectUri>>,
         <<"scope", cfg.google.scope>>,
         <<"access_type", "offline">>,
         <<"prompt", "consent">>,
         <<"state", state>> >>

\* the authorization URL: its endpoint, then its query parameters in the
\* order of the searchParams.set calls
AuthUrl(provider, state) ==
  IF provider = "spotify"
  THEN <<cfg.spotify.auth,
         <<"response_type", "code">>,
         <<"client_id", cfg.spotify.clientId>>,
         <<"redirect_uri", cfg.spotify.redirectUri>>,
         <<"scope", cfg.spotify.scope>>,
         <<"state", state>>,
         <<"show_dialog", "true">> >>
  ELSE <<cfg.google.auth,
         <<"response_type", "code">>,
         <<"client_id", cfg.google.clientId>>,
         <<"redirect_uri", cfg.google.redirectUri>>,
         <<"scope", cfg.google.scope>>,
         <<"access_type", "offline">>,
         <<"prompt", "consent">>,
         <<"state", state>> >>

StartOut(provider, redirect, status, page, state, location) ==
  [NoOut EXCEPT !.req = "start", !.provider = provider, !.redirect = redirect,
                !.status = status, !.page = page, !.state = state,
                !.location = location]

OAuthStart(provider, redirect) ==
  /\ Listening
  /\ IF ~ProviderAccepted(provider)
     THEN /\ out' = StartOut(provider, redirect, 400, "bad provider", Undefined, <<>>)
          /\ UNCHANGED <<txns, issued>>
     ELSE IF ~RedirectAccepted(redirect)
     THEN /\ out' = StartOut(provider, redirect, 400, "bad redirect", Undefined, <<>>)
          /\ UNCHANGED <<txns, issued>>
     ELSE \E state \in Tokens \ DOMAIN issued :
            /\ txns' = TxnSet(txns, state, [redirect |-> redirect])
            /\ issued' = (state :> [provider |-> provider, redirect |-> redirect])
                          @@ issued
            /\ out' = StartOut(provider, redirect, 302, "redirect", state,
                               AuthUrl(provider, state))
  /\ UNCHANGED <<inflight, alive, consumed, relays>>
  /\ UNCHANGED proxyVars
  /\ UNCHANGED exchangeVars

(***************************************************************************)
(* The token exchange: exchangeSpotify, exchangeGoogle.                    *)
(***************************************************************************)
GenericExchangeError(provider) ==
  IF provider = "spotify" THEN "Failed to exchange token with Spotify"
  ELSE "Failed to exchange token with Google"

\* the exchange throws: fetch rejects, r.json() rejects, or the body is null
\* and the non-2xx branch reads a field of it
ExchangeThrows(o) ==
  \/ o.kind \in {"network", "notjson"}
  \/ o.kind = "null" /\ ~o.ok

\* a helper that returns the body whatever the status
ExchangeResult_AnyStatus(provider, o) == o.body

\* the value the exchange returns, where it does not throw
ExchangeResult(provider, o) ==
  IF ~o.ok
  THEN [EmptyBody EXCEPT
          !.error = Or(Or(o.body.error_description, o.body.error),
                       GenericExchangeError(provider))]
  ELSE o.body

\* a test of the returned tokens that looks at the error field only
TokensFailed_ErrorOnly(tokens) == Truthy(tokens.error)

\* the callback's test of the returned tokens: tokens.error || !tokens.access_token
TokensFailed(tokens) == Truthy(tokens.error) \/ Falsy(tokens.access_token)

(***************************************************************************)
(* finish(res, state, data, provider, isError)                             *)
(***************************************************************************)
ErrorData(e) == [EmptyBody EXCEPT !.error = e]

MissingCodeError(provider) ==
  IF provider = "spotify" THEN "Missing code from Spotify callback."
  ELSE "Missing code from Google callback."

\* the object handed to postMessage
Result(provider, data, isError) ==
  IF isError
  THEN [provider |-> provider, error |-> Or(data.error, "Unknown error.")]
  ELSE [provider |-> provider, token |-> data.access_token]

\* a target that is the whole redirect value
TargetOrigin_Whole(txn) == txn.redirect

\* new URL(txn.redirect).origin
TargetOrigin(txn) == Origin(txn.redirect)

CallbackOut(req, status, page, msg, origin, o) ==
  [NoOut EXCEPT !.req = "callback", !.provider = req.provider,
                !.state = req.state, !.code = req.code, !.error = req.error,
                !.status = status, !.page = page, !.msg = msg,
                !.targetOrigin = origin, !.exchange = o,
                !.pendingBefore = req.state \in DOMAIN txns,
                !.consumedBefore = req.state \in consumed]

\* an exception leaves the async handler: the request gets no response, and
\* the unhandled rejection ends the process or not, as the runtime is set up.
\* rest is what the handler had made of the store before it threw.
Thrown(req, o, rest, waiting) ==
  /\ out' = CallbackOut(req, 0, "unanswered", NoMsg, <<>>, o)
  /\ \/ /\ alive' = TRUE
        /\ txns' = rest
        /\ inflight' = waiting
     \/ /\ alive' = FALSE
        /\ txns' = EmptyStore
        /\ inflight' = EmptyBag

Finish(req, data, isError, o, waiting) ==
  LET txn == TxnGet(txns, req.state)
      rest == TxnDelete(txns, req.state)
  IN IF txn = NoTxn
     THEN /\ out' = CallbackOut(req, 400, "invalid state", NoMsg, <<>>, o)
          /\ inflight' = waiting
          /\ UNCHANGED <<txns, alive, consumed, relays>>
     ELSE /\ consumed' = consumed \cup {req.state}
          /\ IF ~UrlParses(txn.redirect)
             THEN /\ Thrown(req, o, rest, waiting)
                  /\ UNCHANGED relays
             ELSE /\ txns' = rest
                  /\ out' = CallbackOut(req, 200, "relay",
                                        Result(req.provider, data, isError),
                                        TargetOrigin(txn), o)
                  /\ relays' = [relays EXCEPT ![req.state] = @ + 1]
                  /\ inflight' = waiting
                  /\ UNCHANGED alive

(***************************************************************************)
(* GET /callback/spotify, GET /callback/google                             *)
(***************************************************************************)
Request(provider, state, code, error) ==
  [provider |-> provider, state |-> state, code |-> code, error |-> error]

\* a handler that does not test the state parameter
StateMissing_Never(state) == FALSE

\* if (!state)
StateMissing(state) == Falsy(state)

\* a handler that does not look at the error parameter
ProviderReportedError_Never(error) == FALSE

\* if (error)
ProviderReportedError(error) == Truthy(error)

\* if (!code)
CodeMissing(code) == Falsy(code)

\* the handler up to its first await
CallbackArrive(provider, state, code, error) ==
  LET req == Request(provider, state, code, error)
  IN /\ Listening
     /\ IF StateMissing(state)
        THEN /\ out' = CallbackOut(req, 400, "missing state", NoMsg, <<>>, NoExchange)
             /\ UNCHANGED <<txns, inflight, alive, consumed, relays>>
        ELSE IF ProviderReportedError(error)
        THEN Finish(req, ErrorData(error), TRUE, NoExchange, inflight)
        ELSE IF CodeMissing(code)
        THEN Finish(req, ErrorData(MissingCodeError(provider)), TRUE,
                    NoExchange, inflight)
        ELSE /\ BagCardinality(inflight) < MaxInflight
             /\ inflight' = inflight (+) SetToBag({req})
             /\ out' = NoOut
             /\ UNCHANGED <<txns, alive, consumed, relays>>
     /\ UNCHANGED issued
     /\ UNCHANGED proxyVars
     /\ UNCHANGED exchangeVars

\* the handler from the end of its exchange on
ExchangeSettle(req, o) ==
  LET waiting == inflight (-) SetToBag({req})
  IN /\ Listening
     /\ BagIn(req, inflight)
     /\ IF ExchangeThrows(o)
        THEN /\ Thrown(req, o, txns, waiting)
             /\ UNCHANGED <<consumed, relays>>
        ELSE IF o.kind = "null"
        THEN /\ Thrown(req, o, txns, waiting)
             /\ UNCHANGED <<consumed, relays>>
        ELSE LET tokens == ExchangeResult(req.provider, o)
             IN IF TokensFailed(tokens)
                THEN Finish(req, ErrorData(tokens.error), TRUE, o, waiting)
                ELSE Finish(req, tokens, FALSE, o, waiting)
     /\ UNCHANGED issued
     /\ UNCHANGED proxyVars
     /\ UNCHANGED exchangeVars

(***************************************************************************)
(* The AI proxy handlers.                                                  *)
(***************************************************************************)
AIListening == alive /\ aiOut = NoAIOut

\* res.json completes: the response has left the server
AIResponseSent ==
  /\ aiOut # NoAIOut
  /\ aiOut' = NoAIOut
  /\ UNCHANGED <<ai, aiInflight>>
  /\ UNCHANGED relayVars
  /\ UNCHANGED exchangeVars

\* a handler that goes on without an AI client
Unconfigured_Never == FALSE

\* if (!ai)
Unconfigured == ~ai

\* !playlistLength: absent or 0
LengthFalsy(n) == n = NoLength \/ n = <<0>>

\* a test of the image fields only
MissingParameters_ImageOnly(handler, b) ==
  IF handler = GeneratePlaylist THEN FALSE
  ELSE Falsy(b.imageData) \/ Falsy(b.imageMimeType)

\* the test each handler makes of the fields it has taken from the body
MissingParameters(handler, b) ==
  IF handler = GeneratePrompt
  THEN Falsy(b.imageData) \/ Falsy(b.imageMimeType) \/ Falsy(b.mood) \/ ~b.styles.given
  ELSE IF handler = EditSelfie
  THEN Falsy(b.imageData) \/ Falsy(b.imageMimeType) \/ Falsy(b.prompt)
  ELSE Falsy(b.mood) \/ Falsy(b.albumPrompt) \/ LengthFalsy(b.playlistLength)

\* styles.decade?.length, styles.genre?.length
HasLength(list) == list.kind # "absent" /\ Len(list.items) > 0

\* styles.decade.join, styles.genre.join: a string has no join
StyleBitsThrow(styles) ==
  \E list \in {styles.decade, styles.genre} : HasLength(list) /\ list.kind # "array"

AIRequest(handler, body) == [handler |-> handler, body |-> body]

AIAnswer(req, status, called, o) ==
  [NoAIOut EXCEPT !.req = req.handler, !.body = req.body, !.status = status,
                  !.called = called, !.upstream = o]

AIError(req, status, error, called, o) ==
  [AIAnswer(req, status, called, o) EXCEPT !.error = error]

\* the message of each handler's catch
CatchError(handler) ==
  IF handler = GeneratePrompt THEN "Error generating album cover prompt."
  ELSE IF handler = EditSelfie THEN "Error editing selfie into album cover: "
  ELSE "Error generating playlist vibe."

\* the handler up to its await
AIArrive(handler, body) ==
  LET req == AIRequest(handler, body)
      b == IF body.present THEN body ELSE EmptyObject
  IN /\ AIListening
     /\ IF Unconfigured
        THEN /\ aiOut' = AIError(req, 503, <<"AI service not configured.">>,
                                 FALSE, NoUpstream)
             /\ UNCHANGED aiInflight
        ELSE IF MissingParameters(handler, b)
        THEN /\ aiOut' = AIError(req, 400, <<"Missing parameters.">>, FALSE, NoUpstream)
             /\ UNCHANGED aiInflight
        ELSE IF handler = GeneratePrompt /\ StyleBitsThrow(b.styles)
        THEN /\ aiOut' = AIError(req, 500, <<CatchError(handler)>>, FALSE, NoUpstream)
             /\ UNCHANGED aiInflight
        ELSE /\ BagCardinality(aiInflight) < MaxAIInflight
             /\ aiInflight' = aiInflight (+) SetToBag({req})
             /\ aiOut' = NoAIOut
     /\ UNCHANGED ai
     /\ UNCHANGED relayVars
     /\ UNCHANGED exchangeVars

\* resp.text?.trim(): the empty text where there is none
GeneratedText(o) == IF o.kind = "text" THEN Trim(o.text) ELSE <<>>

\* a test that takes every text
TextMissing_Never(generatedText) == FALSE

\* if (!generatedText)
TextMissing(generatedText) == generatedText = <<>>

PromptResponse(req, o) ==
  IF o.kind = "throws" \/ TextMissing(GeneratedText(o))
  THEN AIError(req, 500, <<CatchError(GeneratePrompt)>>, TRUE, o)
  ELSE [AIAnswer(req, 200, TRUE, o) EXCEPT !.prompt = GeneratedText(o)]

\* imgResp?.generatedImages?.[0]?.image?.imageBytes
FirstImage(o) ==
  IF o.kind = "images" /\ Len(o.images) > 0 THEN o.images[1] ELSE Undefined

EditResponse(req, o) ==
  IF o.kind = "throws"
  THEN AIError(req, 500, <<CatchError(EditSelfie), o.message>>, TRUE, o)
  ELSE IF Falsy(FirstImage(o))
  THEN AIError(req, 500, <<CatchError(EditSelfie),
                           "Image model did not return image bytes.">>, TRUE, o)
  ELSE [AIAnswer(req, 200, TRUE, o) EXCEPT
          !.imageData = FirstImage(o),
          !.mimeType = Or(req.body.imageMimeType, "image/jpeg")]

PlaylistResponse(req, o) ==
  IF o.kind = "throws"
  THEN AIError(req, 500, <<CatchError(GeneratePlaylist)>>, TRUE, o)
  ELSE LET data == JsonParse(StripFence(GeneratedText(o)))
       IN IF data = NoJson
          THEN AIError(req, 502, <<"Model did not return valid JSON.">>, TRUE, o)
          ELSE [AIAnswer(req, 200, TRUE, o) EXCEPT !.data = data]

\* the handler from the end of its provider call on
AISettle(req, o) ==
  /\ AIListening
  /\ BagIn(req, aiInflight)
  /\ aiInflight' = aiInflight (-) SetToBag({req})
  /\ aiOut' = IF req.handler = GeneratePrompt THEN PromptResponse(req, o)
              ELSE IF req.handler = EditSelfie THEN EditResponse(req, o)
              ELSE PlaylistResponse(req, o)
  /\ UNCHANGED ai
  /\ UNCHANGED relayVars
  /\ UNCHANGED exchangeVars

(***************************************************************************)
(* The specification.                                                      *)
(***************************************************************************)
Next ==
  \/ \E provider \in StartProviders, redirect \in StartRedirects :
       OAuthStart(provider, redirect)
  \/ \E provider \in KnownProviders, state \in CallbackStates,
        code \in CallbackCodes, error \in CallbackErrors :
       CallbackArrive(provider, state, code, error)
  \/ \E req \in BagToSet(inflight), o \in ExchangeOutcomes :
       ExchangeSettle(req, o)
  \/ ResponseSent

Spec == Init /\ [][Next]_vars

NextAI ==
  \/ \E handler \in AIHandlers : \E body \in BodiesOf(handler) :
       AIArrive(handler, body)
  \/ \E req \in BagToSet(aiInflight) : \E o \in OutcomesOf(req.handler) :
       AISettle(req, o)
  \/ AIResponseSent

SpecAI == InitAI /\ [][NextAI]_vars

(***************************************************************************)
(* Properties.                                                             *)
(***************************************************************************)
\* the step just taken answered a callback request
CallbackAnswered == out.req = "callback" /\ out.page # "unanswered"

InvalidStatePage == out.status = 400 /\ out.page = "invalid state"

RelayPage == out.status = 200 /\ out.page = "relay"

\* the callback just handled went through a token exchange
WasSuspended == out.req = "callback" /\ out.exchange.kind # "none"

ExpectedOrigin(redirect) ==
  IF redirect = RedirectA THEN <<"h", "t", "t", "p", ":", "/", "/", "a">>
  ELSE IF redirect = RedirectB
  THEN <<"h", "t", "t", "p", "s", ":", "/", "/", "b", ":", "8", "4", "4", "3">>
  ELSE <<>>

\* C2: the target origin of every relay page is the origin of the redirect
\* value given to the /oauth/start request that issued the page's state.
C2_TargetOrigin ==
  RelayPage =>
    /\ out.state \in DOMAIN issued
    /\ out.targetOrigin = ExpectedOrigin(issued[out.state].redirect)
    /\ out.targetOrigin # <<>>

\* a relay page was produced while a Transaction with another origin is pending
C2_Witness ==
  /\ RelayPage
  /\ out.targetOrigin = ExpectedOrigin(RedirectA)
  /\ \E s \in DOMAIN txns : txns[s].redirect = RedirectB

HttpPrefixLength(s) ==
  IF StartsWith(s, <<"h", "t", "t", "p", "s", ":", "/", "/">>) THEN 8
  ELSE IF StartsWith(s, <<"h", "t", "t", "p", ":", "/", "/">>) THEN 7
  ELSE 0

HttpPrefix(s) == HttpPrefixLength(s) > 0

\* the pattern ^https?://.+ : a character of the same line follows the prefix
HttpPrefixAndMore(s) ==
  /\ HttpPrefix(s)
  /\ Len(s) > HttpPrefixLength(s)
  /\ s[HttpPrefixLength(s) + 1] \notin LineTerminators

\* the value of query parameter key of an authorization URL
QueryParam(url, key) ==
  IF \E i \in 2..Len(url) : url[i][1] = key
  THEN url[CHOOSE i \in 2..Len(url) : url[i][1] = key][2]
  ELSE Undefined

\* the step to the primed state answered an /oauth/start request by creating
\* exactly one Transaction for the request's redirect and redirecting with
\* that Transaction's key as the state parameter
StartCreatedOne ==
  LET key == QueryParam(out'.location, "state")
  IN /\ out'.status = 302
     /\ Truthy(key)
     /\ key \notin DOMAIN txns
     /\ DOMAIN txns' = DOMAIN txns \cup {key}
     /\ txns'[key] = [redirect |-> out'.redirect]
     /\ \A k \in DOMAIN txns : txns'[k] = txns[k]

\* C4 as stated: every /oauth/start request for spotify or google whose
\* redirect matches ^https?:// creates exactly one Transaction.
C4_Original ==
  [][(out'.req = "start" /\ out'.provider \in {"spotify", "google"}
        /\ HttpPrefix(out'.redirect))
     => StartCreatedOne]_vars

\* C4: every /oauth/start request for spotify or google whose redirect matches
\* ^https?://.+ adds exactly one entry to the store, mapping the new state to
\* the redirect, leaves the stored entries unchanged and redirects with the
\* new entry's key as the state parameter.
C4_StartCreatesOne ==
  [][(out'.req = "start" /\ out'.provider \in {"spotify", "google"}
        /\ HttpPrefixAndMore(out'.redirect))
     => StartCreatedOne]_vars

\* an accepted /oauth/start added a second Transaction to a pending one
C4_Witness ==
  /\ out.req = "start"
  /\ out.status = 302
  /\ HttpPrefixAndMore(out.redirect)
  /\ Cardinality(DOMAIN txns) = 2
  /\ QueryParam(out.location, "state") \in DOMAIN txns

\* the step to the primed state refused an /oauth/start request
StartRefused ==
  /\ out'.status = 400
  /\ out'.location = <<>>
  /\ txns' = txns

\* C5 as stated: /oauth/start answers 400 and creates nothing when the
\* provider is not spotify or google and when the redirect is absent or does
\* not match ^https?://.
C5_Original ==
  [][(out'.req = "start"
        /\ (\/ out'.provider \notin {"spotify", "google"}
            \/ out'.redirect = NoRedirect
            \/ ~HttpPrefix(out'.redirect)))
     => StartRefused]_vars

\* C5: /oauth/start answers 400, leaves the store unchanged and issues no
\* redirect when the provider is not spotify or google and when the redirect
\* is absent or does not match ^https?:// in any letter case.
C5_StartRejects ==
  [][(out'.req = "start"
        /\ (\/ out'.provider \notin {"spotify", "google"}
            \/ out'.redirect = NoRedirect
            \/ ~HttpPrefix(LowerSeq(out'.redirect))))
     => StartRefused]_vars

\* a javascript: redirect has just been refused while a Transaction is pending
C5_Witness ==
  /\ out.req = "start"
  /\ out.provider = "spotify"
  /\ out.redirect = RedirectScript
  /\ out.status = 400
  /\ DOMAIN txns # {}

\* the exchange of the callback just handled returned an access token and no
\* error
ExchangeGaveToken ==
  /\ out.exchange.kind = "object"
  /\ out.exchange.ok
  /\ Truthy(out.exchange.body.access_token)
  /\ Falsy(out.exchange.body.error)

\* the posted message is {provider, error} with a non-empty error text
ErrorMessage ==
  /\ DOMAIN out.msg = {"provider", "error"}
  /\ out.msg.provider = out.provider
  /\ Truthy(out.msg.error)

\* C7: a relay page posts {provider, token} only if the token exchange
\* returned a non-empty access_token and no error; every other relay page
\* posts {provider, error} with a non-empty error text and no token.
C7_SuccessOnlyWithToken ==
  RelayPage =>
    IF ExchangeGaveToken
    THEN out.msg = [provider |-> out.provider,
                    token |-> out.exchange.body.access_token]
    ELSE ErrorMessage

\* a 2xx exchange without access_token has just been relayed as a failure
C7_Witness ==
  /\ RelayPage
  /\ out.exchange.kind = "object"
  /\ out.exchange.ok
  /\ Falsy(out.exchange.body.access_token)
  /\ Falsy(out.exchange.body.error)
  /\ ErrorMessage

\* the request carries a state and a code and no error parameter
MayExchange(req) == Truthy(req.state) /\ Falsy(req.error) /\ Truthy(req.code)

\* C8: a token exchange is run only for a callback that carries a state, a
\* code and no error parameter; a callback with an error parameter or
\* without a code goes to finish as a failure without any exchange.
C8_ExchangeOnlyWithCode ==
  /\ \A r \in BagToSet(inflight) : MayExchange(r)
  /\ WasSuspended => MayExchange(out)
  /\ (out.req = "callback" /\ Truthy(out.state) /\ ~MayExchange(out))
       => /\ out.exchange = NoExchange
          /\ RelayPage => ErrorMessage

\* a callback with error=access_denied and a code has just been relayed as a
\* failure, without an exchange
C8_Witness ==
  /\ RelayPage
  /\ Truthy(out.error)
  /\ Truthy(out.code)
  /\ out.exchange = NoExchange
  /\ ErrorMessage
  /\ out.msg.error = out.error

\* the error text of a non-2xx answer: error_description, else error, else
\* the generic message
ProviderErrorText ==
  IF Truthy(out.exchange.body.error_description)
  THEN out.exchange.body.error_description
  ELSE IF Truthy(out.exchange.body.error) THEN out.exchange.body.error
  ELSE IF out.provider = "spotify" THEN "Failed to exchange token with Spotify"
  ELSE "Failed to exchange token with Google"

\* C9: when the token endpoint answers a callback that has a pending state
\* and a code with a non-2xx status, the relay page reports the failure with
\* the provider's error text and the Transaction is gone from the store.
C9_FailedExchangeCleansUp ==
  (WasSuspended /\ out.exchange.kind \in {"notjson", "null", "object"}
     /\ ~out.exchange.ok /\ out.pendingBefore)
  => /\ RelayPage
     /\ ErrorMessage
     /\ out.msg.error = ProviderErrorText
     /\ out.state \notin DOMAIN txns

\* C10: every callback request is answered and the server keeps running,
\* also when the token exchange throws.
C10_AlwaysAnswered ==
  /\ alive
  /\ out.req = "callback" => out.page # "unanswered"

\* C11: a callback request without a state parameter is answered with the
\* HTTP 400 missing-state page; it runs no token exchange, is never suspended
\* in one, and leaves the Transaction Store and the record of what finish
\* has looked up exactly as they were.
C11_MissingState ==
  [][/\ \A r \in BagToSet(inflight') : Truthy(r.state)
     /\ (out'.req = "callback" /\ Falsy(out'.state))
          => /\ out'.status = 400
             /\ out'.page = "missing state"
             /\ out'.exchange = NoExchange
             /\ out'.msg = NoMsg
             /\ txns' = txns
             /\ inflight' = inflight
             /\ consumed' = consumed
             /\ relays' = relays
             /\ alive']_vars

\* a callback with a code and no state has just been refused while a
\* Transaction is pending and another callback awaits its exchange
C11_Witness ==
  /\ out.req = "callback"
  /\ Falsy(out.state)
  /\ Truthy(out.code)
  /\ out.status = 400
  /\ DOMAIN txns # {}
  /\ inflight # EmptyBag

\* the step to the primed state took the callback carrying state s to finish,
\* which found the Transaction of s
ReachedFinish(s) == out'.req = "callback" /\ out'.state = s /\ s \in consumed'

\* C12: a Transaction stays in the store, with its redirect unchanged, until
\* a callback carrying its own state reaches finish; no other request
\* removes or alters it and nothing expires it.
C12_Frame ==
  [][\A s \in DOMAIN txns :
       \/ s \in DOMAIN txns' /\ txns'[s] = txns[s]
       \/ ReachedFinish(s)]_vars

\* the same frame property over the steps that leave the process running
C12_FrameWhileAlive ==
  [][alive' =>
       \A s \in DOMAIN txns :
         \/ s \in DOMAIN txns' /\ txns'[s] = txns[s]
         \/ ReachedFinish(s)]_vars

\* the query parameters the authorization redirect is to carry
ExpectedParams(provider, state) ==
  IF provider = "spotify"
  THEN {<<"response_type", "code">>, <<"client_id", cfg.spotify.clientId>>,
        <<"redirect_uri", cfg.spotify.redirectUri>>,
        <<"scope", cfg.spotify.scope>>, <<"state", state>>,
        <<"show_dialog", "true">>}
  ELSE {<<"response_type", "code">>, <<"client_id", cfg.google.clientId>>,
        <<"redirect_uri", cfg.google.redirectUri>>,
        <<"scope", cfg.google.scope>>, <<"state", state>>,
        <<"access_type", "offline">>, <<"prompt", "consent">>}

\* C13: the redirect of /oauth/start goes to the provider's authorization
\* endpoint and carries exactly the parameters fixed for the provider, each
\* once, with the generated state, which is a key of the store; nothing in it
\* comes from the caller's redirect value.
C13_AuthUrl ==
  (out.req = "start" /\ out.status = 302) =>
    LET url == out.location
        params == {url[i] : i \in 2..Len(url)}
    IN /\ url[1] = (IF out.provider = "spotify"
                     THEN "https://accounts.spotify.com/authorize"
                     ELSE "https://accounts.google.com/o/oauth2/v2/auth")
       /\ params = ExpectedParams(out.provider, out.state)
       /\ Len(url) = 1 + Cardinality(params)
       /\ out.state \in DOMAIN txns

\* a second /oauth/start, for spotify, has just been redirected
C13_Witness ==
  /\ out.req = "start"
  /\ out.status = 302
  /\ out.provider = "spotify"
  /\ out.redirect = RedirectB
  /\ Cardinality(DOMAIN issued) = 2
  /\ QueryParam(out.location, "show_dialog") = "true"

\* the exchange o did not end in a 2xx answer with an access token and no error
ExchangeFailed(o) ==
  ~(o.kind = "object" /\ o.ok /\ Truthy(o.body.access_token) /\ Falsy(o.body.error))

\* the step to the primed state resumed a callback from its token exchange
Settled == out'.req = "callback" /\ out'.exchange.kind # "none"

\* the step to the primed state ended the one exchange of the callback it
\* resumed and started none: the request has left the suspended ones, and
\* only a newly arrived request joins them
OneExchange ==
  /\ Settled =>
       \/ inflight' = inflight (-) SetToBag({Request(out'.provider, out'.state,
                                                    out'.code, out'.error)})
       \/ ~alive' /\ inflight' = EmptyBag
  /\ BagCardinality(inflight') > BagCardinality(inflight) =>
       /\ out' = NoOut
       /\ BagCardinality(inflight') = BagCardinality(inflight) + 1

\* C14: no retry.  Each callback request runs at most one token exchange; a
\* failed exchange is reported to the caller in the response of that same
\* request and no second exchange is started for it.
C14_NoRetryAndReported ==
  [][/\ OneExchange
     /\ (Settled /\ ExchangeFailed(out'.exchange))
          => out'.page \in {"relay", "invalid state"}]_vars

\* the part of C14 about the number of exchanges of a request
C14_NoRetry == [][OneExchange]_vars

\* the step just taken answered an AI proxy request
AIAnswered == aiOut.req # "none"

\* the answer is an error body: {error} and nothing else
AIErrorBody ==
  /\ aiOut.error # <<>>
  /\ aiOut.prompt = <<>>
  /\ aiOut.imageData = Undefined
  /\ aiOut.data = NoJson

\* a body field the handler requires is absent from body
RequiredMissing(handler, body) ==
  IF handler = "/generate-album-cover-prompt"
  THEN \/ body.imageData = Undefined \/ body.imageMimeType = Undefined
       \/ body.mood = Undefined \/ ~body.styles.given
  ELSE IF handler = "/edit-selfie-into-album-cover"
  THEN \/ body.imageData = Undefined \/ body.imageMimeType = Undefined
       \/ body.prompt = Undefined
  ELSE \/ body.mood = Undefined \/ body.albumPrompt = Undefined
       \/ body.playlistLength = <<>>

\* C15 as stated: every AI proxy request that is missing a required body
\* field is answered with HTTP 400, without a call of the AI provider.
C15_Original ==
  (AIAnswered /\ RequiredMissing(aiOut.req, aiOut.body))
    => (aiOut.status = 400 /\ ~aiOut.called)

\* C15: with an AI credential configured, every AI proxy request that is
\* missing a required body field is answered with HTTP 400 and an error
\* body, without a call of the AI provider, and no such request is ever
\* waiting for the provider.
C15_MissingFields ==
  /\ \A r \in BagToSet(aiInflight) : ~RequiredMissing(r.handler, r.body)
  /\ (AIAnswered /\ ai /\ RequiredMissing(aiOut.req, aiOut.body))
       => (aiOut.status = 400 /\ ~aiOut.called /\ AIErrorBody)

\* an edit request with its image and no prompt has just been refused while
\* another request awaits the provider
C15_Witness ==
  /\ ai
  /\ aiOut.req = "/edit-selfie-into-album-cover"
  /\ aiOut.body.imageData = "b64"
  /\ aiOut.body.imageMimeType = "image/png"
  /\ aiOut.body.prompt = Undefined
  /\ aiOut.status = 400
  /\ aiInflight # EmptyBag

\* C16: without an AI credential every AI proxy request, whatever its body,
\* is answered with HTTP 503 and an error body, and the AI provider is never
\* called: no request ever waits for it.
C16_Unconfigured ==
  ~ai =>
    /\ aiInflight = EmptyBag
    /\ AIAnswered => (aiOut.status = 503 /\ ~aiOut.called /\ AIErrorBody)

\* a complete playlist request has just been answered 503
C16_Witness ==
  /\ ~ai
  /\ aiOut.req = "/generate-playlist-vibe"
  /\ aiOut.body.mood = "calm"
  /\ aiOut.body.albumPrompt = "neon"
  /\ aiOut.body.playlistLength = <<2>>
  /\ aiOut.status = 503

\* data is an object whose songs member is an array of n entries
HasSongs(data, n) ==
  /\ data.type = "object"
  /\ \E i \in 1..Len(data.keys) :
       /\ data.keys[i] = "\"songs\""
       /\ data.items[i].type = "array"
       /\ Len(data.items[i].items) = n

\* C17: every HTTP 200 answer of /generate-playlist-vibe to a request with
\* playlistLength = n has a songs array of exactly n entries.
C17_ExactLength ==
  (aiOut.req = "/generate-playlist-vibe" /\ aiOut.status = 200)
    => HasSongs(aiOut.data, aiOut.body.playlistLength[1])

\* the texts of the provider that are well-formed JSON once the white space
\* and the fence around them are taken off
WellFormedInside ==
  {TextTwoSongs, TextOneSong, TextNoSongs, TextFencedJson, TextFencedUpper,
   TextFencedPlain}

\* what each text of the provider holds inside its white space and its fence
Inside(t) ==
  IF t \in {TextFencedJson, TextFencedPlain} THEN TextTwoSongs
  ELSE IF t = TextFencedUpper THEN TextOneSong
  ELSE IF t = TextFencedBad THEN TextTruncated
  ELSE t

\* JSON.stringify(v), a literal and a quoted string written as they were read
RECURSIVE Stringify(_)
RECURSIVE StringifyAll(_, _, _)
Stringify(v) ==
  IF v.type = "string" THEN <<v.text>>
  ELSE IF v.type = "literal" THEN v.items[1]
  ELSE IF v.type = "array" THEN <<"[">> \o StringifyAll(v, 1, FALSE) \o <<"]">>
  ELSE <<"{">> \o StringifyAll(v, 1, TRUE) \o <<"}">>

\* the members of v from the n-th on, separated by commas
StringifyAll(v, n, keyed) ==
  IF n > Len(v.items) THEN <<>>
  ELSE (IF n > 1 THEN <<",">> ELSE <<>>)
       \o (IF keyed THEN <<v.keys[n], ":">> ELSE <<>>)
       \o Stringify(v.items[n])
       \o StringifyAll(v, n + 1, keyed)

WithoutWhitespace(t) == SelectSeq(t, LAMBDA c : c \notin {" ", "\n", "\t", "\r"})

\* C18: /generate-playlist-vibe answers a text of the provider whose inside
\* (the text without a fence wrapped around it, tagged json or not) is
\* well-formed JSON with HTTP 200 and the whole parsed value of that inside,
\* and every other text with HTTP 502 and an error body; a 200 never carries
\* unparsed or partly parsed content.
C18_FencedJson ==
  (aiOut.req = "/generate-playlist-vibe" /\ aiOut.upstream.kind = "text")
    => IF aiOut.upstream.text \in WellFormedInside
       THEN /\ aiOut.status = 200
            /\ aiOut.error = <<>>
            /\ aiOut.data.type \in {"object", "array", "string", "literal"}
            /\ Stringify(aiOut.data) = WithoutWhitespace(Inside(aiOut.upstream.text))
       ELSE /\ aiOut.status = 502
            /\ AIErrorBody

\* a block fenced with an upper-case JSON tag has just been answered 200
C18_Witness ==
  /\ aiOut.req = "/generate-playlist-vibe"
  /\ aiOut.upstream.text = TextFencedUpper
  /\ aiOut.status = 200
  /\ HasSongs(aiOut.data, 1)

\* the call of the AI provider failed: it threw, or gave no text (none, or
\* white space only) or no image bytes
ProviderFailed(handler, o) ==
  \/ o.kind = "throws"
  \/ /\ handler # "/edit-selfie-into-album-cover"
     /\ o.kind = "notext" \/ (o.kind = "text" /\ o.text = TextBlank)
  \/ /\ handler = "/edit-selfie-into-album-cover"
     /\ o.kind = "nothing" \/ o.images \in {<<>>, <<Undefined>>, <<"">>}

\* C19: a failed call of the AI provider is answered with HTTP 500 or 502 and
\* an error body; the step that resumes a request from its provider call
\* answers it, takes it from the waiting requests once, and leaves the
\* server running.
C19_ProviderFailure ==
  [][aiOut'.called =>
       /\ alive'
       /\ aiOut'.status \in {200, 500, 502}
       /\ aiInflight' = aiInflight (-) SetToBag({AIRequest(aiOut'.req, aiOut'.body)})
       /\ BagCardinality(aiInflight') = BagCardinality(aiInflight) - 1
       /\ ProviderFailed(aiOut'.req, aiOut'.upstream)
            => /\ aiOut'.status \in {500, 502}
               /\ aiOut'.error # <<>>
               /\ aiOut'.prompt = <<>>
               /\ aiOut'.imageData = Undefined
               /\ aiOut'.data = NoJson]_vars

\* a provider text of white space only has just been answered 500 by the
\* prompt handler
C19_Witness ==
  /\ aiOut.req = "/generate-album-cover-prompt"
  /\ aiOut.called
  /\ aiOut.upstream.kind = "text"
  /\ aiOut.upstream.text = TextBlank
  /\ aiOut.status = 500

\* C20: tokens are never kept.  Every entry of the Transaction Store holds a
\* redirect target and nothing else, the one its /oauth/start gave it; a
\* suspended callback holds its query parameters only; and once a response
\* has left, no message and no exchange result remains.
C20_NoTokenKept ==
  /\ \A s \in DOMAIN txns :
       /\ DOMAIN txns[s] = {"redirect"}
       /\ s \in DOMAIN issued
       /\ txns[s].redirect = issued[s].redirect
  /\ \A r \in BagToSet(inflight) : DOMAIN r = {"provider", "state", "code", "error"}
  /\ out.req # "callback" => (out.msg = NoMsg /\ out.exchange = NoExchange)

\* an access token has just been relayed while another Transaction is
\* pending and another callback is suspended
C20_Witness ==
  /\ RelayPage
  /\ ExchangeGaveToken
  /\ DOMAIN out.msg = {"provider", "token"}
  /\ DOMAIN txns # {}
  /\ inflight # EmptyBag

\* a callback request that is suspended in its token exchange and carries
\* the state of the callback just handled: the server received it earlier
EarlierSameState ==
  \E r \in BagToSet(inflight) : r.state = out.state

\* the callback just handled was received by this very step: it ran no
\* exchange, so it went from arrival to finish without being suspended
HandledOnArrival == out.req = "callback" /\ out.exchange = NoExchange

\* C21: first presenter wins.  Among callback requests that carry the same
\* pending state, the one the server received first gets the relay page: a
\* request never gets the relay page while a request with the same state
\* that was received before it is still awaiting its token exchange.
C21_FirstReceivedWins ==
  (HandledOnArrival /\ EarlierSameState) => ~RelayPage

\* the callback just handled is the one whose finish found the Transaction
\* of its state and deleted it
DeletedByThisRequest ==
  /\ out.req = "callback"
  /\ out.pendingBefore
  /\ out.state \in consumed

\* C22: consumption and response are atomic in finish.  Whatever redirect
\* /oauth/start accepted, the callback request whose finish deleted the
\* Transaction of its state is answered with the relay page.
C22_AtomicFinish == DeletedByThisRequest => RelayPage

\* the step sends a request to the provider's token endpoint for r: r joins
\* the requests suspended in their exchange
ExchangeCalled(r) == CopiesIn(r, inflight') > CopiesIn(r, inflight)

\* C23: a token exchange is started only for a callback whose state
\* identifies a Transaction pending at that time; a callback with an unknown
\* or already consumed state starts none.
C23_ExchangeOnlyWhenPending ==
  [][\A r \in BagToSet(inflight') :
       ExchangeCalled(r) => r.state \in DOMAIN txns]_vars

\* C24: provider binding.  A state issued by /oauth/start for a provider is
\* consumed only by that provider's callback endpoint: the provider field of
\* every posted message is the provider of the /oauth/start request that
\* issued the state.
C24_ProviderBinding ==
  RelayPage => /\ out.state \in DOMAIN issued
               /\ out.provider = issued[out.state].provider
               /\ out.msg.provider = issued[out.state].provider

(***************************************************************************)
(* exchangeSpotify and exchangeGoogle taken by themselves: one call of the *)
(* helper on one answer of the token endpoint.                             *)
(***************************************************************************)
\* the JSON objects of a token endpoint, each field absent, empty or set
ExchangeBodies ==
  [access_token : {Undefined, "", "tok"},
   error : {Undefined, "", "invalid_grant"},
   error_description : {Undefined, "", "Invalid authorization code"}]

\* the answers a helper is called on: every way the exchange can end, with
\* every object body, for each of the two helpers
ProviderAnswers ==
  [provider : KnownProviders,
   o : ExchangeOutcomes
       \cup [kind : {"object"}, ok : BOOLEAN, body : ExchangeBodies]]

\* what the helper's promise settles to: it rejects ("throws"), resolves to
\* null, or resolves to an object (value)
Returned(how, value) == [called |-> TRUE, how |-> how, value |-> value]

InitExchange ==
  /\ Started({"key"})
  /\ answer \in ProviderAnswers
  /\ returned = NotCalled

\* await exchangeSpotify(code), await exchangeGoogle(code)
CallExchange ==
  /\ ~returned.called
  /\ answer # NoAnswer
  /\ returned' =
       IF ExchangeThrows(answer.o) THEN Returned("throws", EmptyBody)
       ELSE IF answer.o.kind = "null" THEN Returned("null", EmptyBody)
       ELSE Returned("object", ExchangeResult(answer.provider, answer.o))
  /\ UNCHANGED answer
  /\ UNCHANGED relayVars
  /\ UNCHANGED proxyVars

NextExchange == CallExchange

SpecExchange == InitExchange /\ [][NextExchange]_vars

\* the error text the helper is to report for the answer it was called on
ExpectedError ==
  LET body == answer.o.body
  IN IF body.error_description \notin {Undefined, ""}
     THEN body.error_description
     ELSE IF body.error \notin {Undefined, ""} THEN body.error
     ELSE IF answer.provider = "spotify"
     THEN "Failed to exchange token with Spotify"
     ELSE "Failed to exchange token with Google"

\* the helper has been called on an answer whose body is a JSON object
CalledOnObject == returned.called /\ answer.o.kind = "object"

\* C25: for every status and every combination of the fields of a JSON
\* object body, exchangeSpotify and exchangeGoogle return, on a non-2xx
\* status, an object whose only field is error, holding the body's
\* error_description if non-empty, else the body's error if non-empty, else
\* the helper's generic message, and never empty; on a 2xx status they
\* return the body unchanged.
C25_ExchangeMapping ==
  CalledOnObject =>
    /\ returned.how = "object"
    /\ IF ~answer.o.ok
       THEN /\ returned.value.error = ExpectedError
            /\ returned.value.error \notin {Undefined, ""}
            /\ returned.value.access_token = Undefined
            /\ returned.value.error_description = Undefined
       ELSE returned.value = answer.o.body

\* a helper has answered a non-2xx status whose body has an empty
\* error_description and a non-empty error with that error
C25_Witness ==
  /\ CalledOnObject
  /\ ~answer.o.ok
  /\ answer.o.body.error_description = ""
  /\ answer.o.body.error = "invalid_grant"
  /\ answer.o.body.access_token = "tok"
  /\ returned.value = ErrorData("invalid_grant")

(***************************************************************************)
(* The redirect variant of the relay: the same Transaction Store, an       *)
(* /oauth/start that asks spotify for no dialog, exchange helpers that     *)
(* return the body whatever the status, callbacks that test nothing before *)
(* the exchange, and a finish that redirects to the stored target.  Its    *)
(* definitions carry the source's names with Redirect in front.            *)
(***************************************************************************)
\* callback requests of the redirect variant suspended at a time: every
\* callback is suspended there, whatever its parameters
MaxRedirectInflight == 1

\* the authorization URL of the redirect variant
RedirectAuthUrl(provider, state) ==
  IF provider = "spotify"
  THEN <<cfg.spotify.auth,
         <<"response_type", "code">>,
         <<"client_id", cfg.spotify.clientId>>,
         <<"redirect_uri", cfg.spotify.redirectUri>>,
         <<"scope", cfg.spotify.scope>>,
         <<"state", state>> >>
  ELSE <<cfg.google.auth,
         <<"response_type", "code">>,
         <<"client_id", cfg.google.clientId>>,
         <<"redirect_uri", cfg.google.redirectUri>>,
         <<"scope", cfg.google.scope>>,
         <<"access_type", "offline">>,
         <<"prompt", "consent">>,
         <<"state", state>> >>

RedirectOAuthStart(provider, redirect) ==
  /\ Listening
  /\ IF ~ProviderAccepted(provider)
     THEN /\ out' = StartOut(provider, redirect, 400, "bad provider", Undefined, <<>>)
          /\ UNCHANGED <<txns, issued>>
     ELSE IF ~RedirectAccepted(redirect)
     THEN /\ out' = StartOut(provider, redirect, 400, "bad redirect", Undefined, <<>>)
          /\ UNCHANGED <<txns, issued>>
     ELSE \E state \in Tokens \ DOMAIN issued :
            /\ txns' = TxnSet(txns, state, [redirect |-> redirect])
            /\ issued' = (state :> [provider |-> provider, redirect |-> redirect])
                          @@ issued
            /\ out' = StartOut(provider, redirect, 302, "redirect", state,
                               RedirectAuthUrl(provider, state))
  /\ UNCHANGED <<inflight, alive, consumed, relays>>
  /\ UNCHANGED proxyVars
  /\ UNCHANGED exchangeVars

\* the helper throws: fetch rejects or r.json() rejects
RedirectExchangeThrows(o) == o.kind \in {"network", "notjson"}

\* return r.json(): the body, 2xx or not
RedirectExchangeResult(o) == o.body

\* the path of new URL(s): what follows the authority, "/" where nothing does
\* (the redirect values followed here have no query and no fragment)
UrlPath(s) ==
  LET from == SkipFrom(s, FindFrom(s, 1, {":"}) + 1, {"/", "\\"})
      rest == Drop(s, FindFrom(s, from, AuthorityEnd))
  IN IF rest = <<>> THEN <<"/">> ELSE rest

\* url = new URL(txn.redirect); url.searchParams.set("ok", "1");
\* url.toString(): the normalised target, then its query parameters
OkUrl(txn) ==
  <<Origin(txn.redirect) \o UrlPath(txn.redirect), <<"ok", "1">> >>

\* finish(res, state, tokens): tokens is not read
RedirectFinish(req, tokens, o, waiting) ==
  LET txn == TxnGet(txns, req.state)
      rest == TxnDelete(txns, req.state)
  IN IF txn = NoTxn
     THEN /\ out' = CallbackOut(req, 400, "bad state", NoMsg, <<>>, o)
          /\ inflight' = waiting
          /\ UNCHANGED <<txns, alive, consumed, relays>>
     ELSE /\ consumed' = consumed \cup {req.state}
          /\ IF ~UrlParses(txn.redirect)
             THEN /\ Thrown(req, o, rest, waiting)
                  /\ UNCHANGED relays
             ELSE /\ txns' = rest
                  /\ out' = [CallbackOut(req, 302, "redirect", NoMsg, <<>>, o)
                               EXCEPT !.location = OkUrl(txn)]
                  /\ relays' = [relays EXCEPT ![req.state] = @ + 1]
                  /\ inflight' = waiting
                  /\ UNCHANGED alive

\* the callback up to its await: it reads code and state and calls the
\* exchange helper, whatever they are
RedirectCallbackArrive(provider, state, code, error) ==
  LET req == Request(provider, state, code, error)
  IN /\ Listening
     /\ BagCardinality(inflight) < MaxRedirectInflight
     /\ inflight' = inflight (+) SetToBag({req})
     /\ out' = NoOut
     /\ UNCHANGED <<txns, alive, consumed, relays, issued>>
     /\ UNCHANGED proxyVars
     /\ UNCHANGED exchangeVars

\* the callback from the end of its exchange on
RedirectExchangeSettle(req, o) ==
  LET waiting == inflight (-) SetToBag({req})
  IN /\ Listening
     /\ BagIn(req, inflight)
     /\ IF RedirectExchangeThrows(o)
        THEN /\ Thrown(req, o, txns, waiting)
             /\ UNCHANGED <<consumed, relays>>
        ELSE RedirectFinish(req, RedirectExchangeResult(o), o, waiting)
     /\ UNCHANGED issued
     /\ UNCHANGED proxyVars
     /\ UNCHANGED exchangeVars

RedirectNext ==
  \/ \E provider \in StartProviders, redirect \in StartRedirects :
       RedirectOAuthStart(provider, redirect)
  \/ \E provider \in KnownProviders, state \in CallbackStates,
        code \in CallbackCodes, error \in CallbackErrors :
       RedirectCallbackArrive(provider, state, code, error)
  \/ \E req \in BagToSet(inflight), o \in ExchangeOutcomes :
       RedirectExchangeSettle(req, o)
  \/ ResponseSent

SpecRedirect == Init /\ [][RedirectNext]_vars

\* the callback just handled was redirected to its target with ok=1
RedirectedOk ==
  /\ out.req = "callback"
  /\ out.status = 302
  /\ QueryParam(out.location, "ok") = "1"

\* C26: in the redirect variant, finish redirects the browser to the stored
\* target with ok=1 only when the callback carried a code and no provider
\* error and its token exchange returned an access token.
C26_OkOnlyOnSuccess ==
  RedirectedOk => /\ ExchangeGaveToken
                  /\ Truthy(out.code)
                  /\ Falsy(out.error)

====
